---- MODULE Spec2Model ----
(***************************************************************************)
(* ZigZag layered proof-of-replication: replication, extraction, proving   *)
(* and verification (storage-proofs/src/zigzag/proof.rs).                  *)
(*                                                                         *)
(* A node (32 bytes in the program) is one element of Z_FieldOrder.  A     *)
(* buffer is a sequence of nodes; node x of the program is element x+1.    *)
(***************************************************************************)
EXTENDS Integers, Sequences, FiniteSets, TLC

\* ---------------------------------------------------------------- bounds
FieldOrder == 3
MaxNodes == 4
MaxLayers == 4
MaxSeed == 1
MaxPartitions == 2
MaxChallenges == 1
\* the largest value of a challenge seed given in the public inputs
MaxSeedValue == 0
BaseDegree == 2
ExpDegree == 1
\* the width in bits of the machine word (usize)
WordBits == 3
\* the bits of a byte, the bytes of a digest and of a field element
ByteBits == 3
ReprBytes == 2
\* the longest byte string hashed, the longest column hashed in a circuit
MaxDataLen == 2
MaxRows == 2
\* the largest partition index and the largest tree for which challenges are
\* derived on their own
MaxPartitionIndex == 257
MaxLeaves == 5

Fr == 0 .. (FieldOrder - 1)

\* ------------------------------------------------------------ arithmetic
Mod(a) == a % FieldOrder

Neg(a) == Mod(FieldOrder - Mod(a))

\* alternating-sign sum of a sequence of field elements
RECURSIVE AltSum(_, _)
AltSum(s, j) ==
  IF j > Len(s) THEN 0
  ELSE Mod((IF j % 2 = 1 THEN s[j] ELSE Neg(s[j])) + AltSum(s, j + 1))

RECURSIVE next_pow2(_)
next_pow2(n) == IF n <= 1 THEN 1 ELSE 2 * next_pow2((n + 1) \div 2)

\* ---------------------------------------------------------------- hashes
\* H: hash of a byte string (here: of a sequence of nodes)
Hash(s) == Mod(1 + AltSum(s, 1))

\* H2: the 2-to-1 hash used for the column commitment C_i
hash2(a, b) == Mod(2 + a + Neg(b))

\* hash of two children inside a Merkle tree
NodeHash(l, r) == Mod(1 + l + Neg(r))

\* the key of a node: hash of the replica id followed by the parents' labels
KeyOf(rid, parentsData) == Mod(rid + Hash(parentsData))

encode(key, value) == Mod(key + value)

decode(key, value) == Mod(value + Neg(key))

\* ----------------------------------------------------------------- graph
\* A graph is [nodes, layer, seed]; even layers are forward, odd reversed.
new_zigzag(nodes, layer, seed) == [nodes |-> nodes, layer |-> layer, seed |-> seed]

forward(g) == g.layer % 2 = 0

inv_index(g, x) == (g.nodes - 1) - x

zigzag(g) == [g EXCEPT !.layer = g.layer + 1]

\* base DRG parent j (1..BaseDegree) of node x in the forward direction
BaseParentFwd(g, x, j) ==
  IF x <= 1 THEN 0
  ELSE IF j = BaseDegree THEN x - 1
  ELSE (g.seed + j) % x

\* expansion parent j (1..ExpDegree) of node x in the forward direction:
\* the image of slot (x, j) under a seeded permutation of the slots, kept
\* when it lies before x and replaced by the padding node 0 otherwise
ExpParentFwd(g, x, j) ==
  LET slots == g.nodes * ExpDegree
      other == (((x * ExpDegree + (j - 1)) + g.seed + 1) % slots) \div ExpDegree
  IN IF other < x THEN other ELSE 0

RECURSIVE Insert(_, _)
Insert(s, v) ==
  IF s = <<>> THEN <<v>>
  ELSE IF v <= Head(s) THEN <<v>> \o s
  ELSE <<Head(s)>> \o Insert(Tail(s), v)

RECURSIVE SortAsc(_)
SortAsc(s) == IF s = <<>> THEN <<>> ELSE Insert(SortAsc(Tail(s)), Head(s))

ParentsFwd(g, x) ==
  SortAsc([j \in 1 .. (BaseDegree + ExpDegree) |->
             IF j <= BaseDegree THEN BaseParentFwd(g, x, j)
             ELSE ExpParentFwd(g, x, j - BaseDegree)])

\* parents of x: ascending in a forward graph; a reversed graph is the
\* mirror image under inv_index, so its parents come after x, descending
parents(g, x) ==
  IF forward(g) THEN ParentsFwd(g, x)
  ELSE LET m == ParentsFwd(g, inv_index(g, x))
       IN [j \in 1 .. Len(m) |-> inv_index(g, m[j])]

expanded_parents(g, x) ==
  IF forward(g) THEN [j \in 1 .. ExpDegree |-> ExpParentFwd(g, x, j)]
  ELSE [j \in 1 .. ExpDegree |-> inv_index(g, ExpParentFwd(g, inv_index(g, x), j))]

base_parents(g, x) ==
  IF forward(g) THEN [j \in 1 .. BaseDegree |-> BaseParentFwd(g, x, j)]
  ELSE [j \in 1 .. BaseDegree |-> inv_index(g, BaseParentFwd(g, inv_index(g, x), j))]

\* ------------------------------------------------------------------- vde
data_at_node(buf, x) == buf[x + 1]

\* the key of node x: the parents' labels are hashed unless x is its own
\* first parent (the first node in encoding order has no real parents)
create_key(g, rid, x, buf) ==
  LET ps == parents(g, x)
  IN IF ps[1] = x THEN KeyOf(rid, <<>>)
     ELSE KeyOf(rid, [j \in 1 .. Len(ps) |-> data_at_node(buf, ps[j])])

\* in-place encoding of the nodes n .. size-1 of the encoding order
RECURSIVE EncodeFrom(_, _, _, _)
EncodeFrom(g, rid, buf, n) ==
  IF n >= g.nodes THEN buf
  ELSE LET x == IF forward(g) THEN n ELSE (g.nodes - n) - 1
           key == create_key(g, rid, x, buf)
       IN EncodeFrom(g, rid, [buf EXCEPT ![x + 1] = encode(key, buf[x + 1])], n + 1)

vde_encode(g, rid, buf) == EncodeFrom(g, rid, buf, 0)

\* decoding reads every key from the encoded buffer
vde_decode(g, rid, buf) ==
  [i \in 1 .. Len(buf) |-> decode(create_key(g, rid, i - 1, buf), buf[i])]

\* ---------------------------------------------------------------- merkle
\* A tree is the sequence of its leaves, padded to a power of two.
RECURSIVE TreeRoot(_)
TreeRoot(leaves) ==
  IF Len(leaves) <= 1 THEN leaves[1]
  ELSE LET half == Len(leaves) \div 2
       IN NodeHash(TreeRoot(SubSeq(leaves, 1, half)),
                   TreeRoot(SubSeq(leaves, half + 1, Len(leaves))))

\* the path of leaf i (0-based), bottom-up: sibling hash and whether the
\* node on the path is a right child
RECURSIVE TreePath(_, _)
TreePath(leaves, i) ==
  IF Len(leaves) <= 1 THEN <<>>
  ELSE LET half == Len(leaves) \div 2
           l == SubSeq(leaves, 1, half)
           r == SubSeq(leaves, half + 1, Len(leaves))
       IN IF i < half
          THEN Append(TreePath(l, i), [hash |-> TreeRoot(r), is_right |-> FALSE])
          ELSE Append(TreePath(r, i - half), [hash |-> TreeRoot(l), is_right |-> TRUE])

\* build_tree: the leaves are the nodes of tree_data, padded to next_pow2
build_tree(tree_data) ==
  [i \in 1 .. next_pow2(Len(tree_data)) |->
     IF i <= Len(tree_data) THEN tree_data[i] ELSE 0]

gen_proof(tree, i) ==
  [root |-> TreeRoot(tree), leaf |-> tree[i + 1], path |-> TreePath(tree, i)]

\* the leaf index a path leads to, read off its direction bits
RECURSIVE PathIndex(_, _)
PathIndex(path, j) ==
  IF j > Len(path) THEN 0
  ELSE (IF path[j].is_right THEN 1 ELSE 0) + 2 * PathIndex(path, j + 1)

proves_challenge(proof, challenge) == PathIndex(proof.path, 1) = challenge

\* the root recomputed from the leaf along the path
RECURSIVE PathRoot(_, _, _)
PathRoot(cur, path, j) ==
  IF j > Len(path) THEN cur
  ELSE PathRoot(IF path[j].is_right THEN NodeHash(path[j].hash, cur)
                ELSE NodeHash(cur, path[j].hash), path, j + 1)

validate(proof) == PathRoot(proof.leaf, proof.path, 1) = proof.root

\* --------------------------------------------------------------- columns
\* the indices from, from+2, ... below to (Rust: (from..to).step_by(2))
RECURSIVE StepBy2(_, _)
StepBy2(from, to) ==
  IF from >= to THEN <<>> ELSE <<from>> \o StepBy2(from + 2, to)

\* get_node_at_layer indexes encodings[layer]: out of bounds it aborts
InBounds(encodings, idx) ==
  \A j \in 1 .. Len(idx) : idx[j] < Len(encodings)

get_node_at_layer(encodings, node, layer) == encodings[layer + 1][node + 1]

EvenLayerIdx(layers) == StepBy2(1, layers - 1)

OddLayerIdx(layers) == StepBy2(0, layers)

get_even_column(encodings, layers, x) ==
  LET idx == EvenLayerIdx(layers)
  IN [index |-> x, kind |-> "even",
      rows |-> [j \in 1 .. Len(idx) |-> get_node_at_layer(encodings, x, idx[j])]]

get_odd_column(encodings, layers, x) ==
  LET idx == OddLayerIdx(layers)
  IN [index |-> x, kind |-> "odd",
      rows |-> [j \in 1 .. Len(idx) |-> get_node_at_layer(encodings, x, idx[j])]]

get_full_column(encodings, g, layers, x) ==
  [index |-> x, kind |-> "all",
   rows |-> [j \in 1 .. (layers - 1) |->
               get_node_at_layer(encodings,
                                 IF j % 2 = 0 THEN inv_index(g, x) ELSE x, j - 1)]]

RowsAt(rows, parity) ==
  LET idx == StepBy2(parity, Len(rows))
  IN [j \in 1 .. Len(idx) |-> rows[idx[j] + 1]]

\* Column::hash: a full column hashes to H2 of its odd and even halves
ColumnHash(column) ==
  IF column.kind = "all"
  THEN hash2(Hash(RowsAt(column.rows, 0)), Hash(RowsAt(column.rows, 1)))
  ELSE Hash(column.rows)

\* ----------------------------------------------------- replicate/extract
\* a transform that hands the same graph to the next layer
transform_same_graph(g) == g

transform(g) == zigzag(g)

invert_transform(g) == zigzag(g)

\* a setup that refuses a node count that is not a power of two
setup_pow2_only(s) ==
  IF next_pow2(s.nodes) = s.nodes
  THEN [ok |-> TRUE,
        graph |-> new_zigzag(s.nodes, 0, s.seed),
        layer_challenges |-> [layers |-> s.layers,
                              challenges_count |-> s.challenges_count]]
  ELSE [ok |-> FALSE,
        graph |-> new_zigzag(0, 0, 0),
        layer_challenges |-> [layers |-> 0, challenges_count |-> 0]]

\* setup wraps the graph of layer 0 in Ok(..) for every node count
setup(s) ==
  [ok |-> TRUE,
   graph |-> new_zigzag(s.nodes, 0, s.seed),
   layer_challenges |-> [layers |-> s.layers, challenges_count |-> s.challenges_count]]

\* the fold of extract_and_invert_transform_layers: each round transforms
\* the graph first and decodes with the transformed graph
RECURSIVE ExtractFold(_, _, _, _)
ExtractFold(g, rid, buf, rounds) ==
  IF rounds = 0 THEN buf
  ELSE LET inverted == invert_transform(g)
       IN ExtractFold(inverted, rid, vde_decode(inverted, rid, buf), rounds - 1)

extract_all(params, rid, buf) ==
  ExtractFold(params.graph, rid, buf, params.layer_challenges.layers)

\* ------------------------------------------------------------ challenges
NoSeed == [some |-> FALSE, value |-> 0]

\* PublicInputs.seed: None, or Some(value)
SeedChoices == {NoSeed} \cup {[some |-> TRUE, value |-> v] : v \in 0 .. MaxSeedValue}

\* LayerChallenges::derive: challenges_count node indices per partition,
\* never the first nor the last node; aborts when there is no such node
DerivePanics(leaves) == leaves <= 2

derive(layer_challenges, leaves, rid, commitment, k) ==
  [i \in 1 .. layer_challenges.challenges_count |->
     LET j == layer_challenges.challenges_count * k + (i - 1)
     IN ((rid + commitment + j) % (leaves - 2)) + 1]

\* challenges that are derived from tau.comm_r whether a seed is given or not
challenges_ignoring_seed(pub_inputs, layer_challenges, leaves, partition_k) ==
  LET k == partition_k
  IN derive(layer_challenges, leaves, pub_inputs.replica_id,
            pub_inputs.tau.comm_r, k % 256)

\* PublicInputs::challenges: the partition index is narrowed to u8
challenges(pub_inputs, layer_challenges, leaves, partition_k) ==
  LET k == partition_k
  IN IF pub_inputs.seed.some
     THEN derive(layer_challenges, leaves, pub_inputs.replica_id,
                 pub_inputs.seed.value, k % 256)
     ELSE derive(layer_challenges, leaves, pub_inputs.replica_id,
                 pub_inputs.tau.comm_r, k % 256)

\* ---------------------------------------------------------------- proofs
\* ColumnProof: the column, its inclusion proof in tree_c and, for an odd
\* (even) column, the hash of the other half of the full column
all_from_column(column, inclusion_proof) ==
  [column |-> column, inclusion_proof |-> inclusion_proof, other |-> 0]

odd_from_column(column, inclusion_proof, e_i) ==
  [column |-> column, inclusion_proof |-> inclusion_proof, other |-> e_i]

even_from_column(column, inclusion_proof, o_i) ==
  [column |-> column, inclusion_proof |-> inclusion_proof, other |-> o_i]

ColumnCommitment(cp) ==
  IF cp.column.kind = "all" THEN ColumnHash(cp.column)
  ELSE IF cp.column.kind = "odd" THEN hash2(ColumnHash(cp.column), cp.other)
  ELSE hash2(cp.other, ColumnHash(cp.column))

\* ColumnProof::verify: the commitment rebuilt from the column is the leaf
\* of the inclusion proof, and the inclusion proof leads to its root
ColumnProofVerify(cp) ==
  /\ cp.inclusion_proof.leaf = ColumnCommitment(cp)
  /\ validate(cp.inclusion_proof)

\* ColumnProof::get_node_at_layer: row layer-1 of the column
HasLayer(cp, l) == l >= 1 /\ l <= Len(cp.column.rows)

column_node_at_layer(cp, l) == cp.column.rows[l]

EncodingProofNew(encoded_node, decoded_node, parents_data) ==
  [encoded_node |-> encoded_node, decoded_node |-> decoded_node,
   parents |-> parents_data]

\* EncodingProof::verify: re-derive the key from the parents' labels and
\* re-encode the decoded node
EncodingProofVerify(ep, rid, exp_encoded_node, decoded_node) ==
  encode(KeyOf(rid, ep.parents), decoded_node) = exp_encoded_node

ParentsData(g, x, buf) ==
  LET ps == parents(g, x)
  IN [j \in 1 .. Len(ps) |-> data_at_node(buf, ps[j])]

\* ---------------------------------------------------------------- prover
get_drg_parents_columns(graph_0, aux, layers, x) ==
  LET ps == base_parents(graph_0, x)
  IN [j \in 1 .. Len(ps) |-> get_full_column(aux.encodings, graph_0, layers, ps[j])]

get_exp_parents_even_columns(graph_1, aux, layers, x) ==
  LET ps == expanded_parents(graph_1, x)
  IN [j \in 1 .. Len(ps) |-> get_even_column(aux.encodings, layers, ps[j])]

get_exp_parents_odd_columns(graph_2, aux, layers, x) ==
  LET ps == expanded_parents(graph_2, x)
  IN [j \in 1 .. Len(ps) |-> get_odd_column(aux.encodings, layers, ps[j])]

\* the even columns opened at the column's own index instead of inv_index
ReplicaColumnProofOf_even_at_index(graph_0, aux, layers, challenge) ==
  LET graph_1 == transform(graph_0)
      graph_2 == transform(graph_1)
      inv_challenge == inv_index(graph_0, challenge)
      full(x) == LET column == get_full_column(aux.encodings, graph_0, layers, x)
                 IN all_from_column(column, gen_proof(aux.tree_c, column.index))
      drg == get_drg_parents_columns(graph_0, aux, layers, challenge)
      odd == get_exp_parents_odd_columns(graph_2, aux, layers, challenge)
      even == get_exp_parents_even_columns(graph_1, aux, layers, inv_challenge)
  IN [c_x |-> full(challenge),
      c_inv_x |-> full(inv_challenge),
      drg_parents |-> [j \in 1 .. Len(drg) |->
         all_from_column(drg[j], gen_proof(aux.tree_c, drg[j].index))],
      exp_parents_odd |-> [j \in 1 .. Len(odd) |->
         LET index == odd[j].index
         IN odd_from_column(odd[j], gen_proof(aux.tree_c, index), aux.es[index + 1])],
      exp_parents_even |-> [j \in 1 .. Len(even) |->
         LET index == even[j].index
         IN even_from_column(even[j], gen_proof(aux.tree_c, index), aux.os[index + 1])]]

\* the replica column openings of one challenge
ReplicaColumnProofOf(graph_0, aux, layers, challenge) ==
  LET graph_1 == transform(graph_0)
      graph_2 == transform(graph_1)
      inv_challenge == inv_index(graph_0, challenge)
      full(x) == LET column == get_full_column(aux.encodings, graph_0, layers, x)
                 IN all_from_column(column, gen_proof(aux.tree_c, column.index))
      drg == get_drg_parents_columns(graph_0, aux, layers, challenge)
      odd == get_exp_parents_odd_columns(graph_2, aux, layers, challenge)
      even == get_exp_parents_even_columns(graph_1, aux, layers, inv_challenge)
  IN [c_x |-> full(challenge),
      c_inv_x |-> full(inv_challenge),
      drg_parents |-> [j \in 1 .. Len(drg) |->
         all_from_column(drg[j], gen_proof(aux.tree_c, drg[j].index))],
      exp_parents_odd |-> [j \in 1 .. Len(odd) |->
         LET index == odd[j].index
         IN odd_from_column(odd[j], gen_proof(aux.tree_c, index), aux.es[index + 1])],
      exp_parents_even |-> [j \in 1 .. Len(even) |->
         LET index == inv_index(graph_1, even[j].index)
         IN even_from_column(even[j], gen_proof(aux.tree_c, index), aux.os[index + 1])]]

\* the final replica layer openings of one challenge
CommRLastProofOf(graph_0, aux, challenge) ==
  LET graph_1 == transform(graph_0)
      inv_challenge == inv_index(graph_0, challenge)
      ps == parents(graph_1, inv_challenge)
  IN [inclusion |-> gen_proof(aux.tree_r_last, inv_challenge),
      even_parents |-> [j \in 1 .. Len(ps) |-> gen_proof(aux.tree_r_last, ps[j])]]

\* the encoding proof of layer 1, with the parents taken in the graph of
\* the next layer
EncodingProof1Of_parents_of_graph_1(graph_0, aux, rpc, comm_d_proof, challenge) ==
  EncodingProofNew(column_node_at_layer(rpc.c_x, 1), comm_d_proof.leaf,
                   ParentsData(transform(graph_0), challenge, aux.encodings[1]))

\* the encoding proof of layer 1
EncodingProof1Of(graph_0, aux, rpc, comm_d_proof, challenge) ==
  EncodingProofNew(column_node_at_layer(rpc.c_x, 1), comm_d_proof.leaf,
                   ParentsData(graph_0, challenge, aux.encodings[1]))

\* the encoding proof of a layer in 2 .. layers-1, built with graph_1 at
\* the renumbered position whatever the layer's parity
EncodingProofOf_always_graph_1(graph_0, aux, rpc, challenge, l) ==
  LET graph_1 == transform(graph_0)
      inv_challenge == inv_index(graph_0, challenge)
      encoded_node == column_node_at_layer(rpc.c_x, l)
      decoded_node == column_node_at_layer(rpc.c_inv_x, l - 1)
      encoded_data == aux.encodings[l]
  IN EncodingProofNew(encoded_node, decoded_node,
                      ParentsData(graph_1, inv_challenge, encoded_data))

\* the encoding proof of a layer in 2 .. layers-1
EncodingProofOf(graph_0, aux, rpc, challenge, l) ==
  LET graph_1 == transform(graph_0)
      graph_2 == transform(graph_1)
      inv_challenge == inv_index(graph_0, challenge)
      encoded_node == column_node_at_layer(rpc.c_x, l)
      decoded_node == column_node_at_layer(rpc.c_inv_x, l - 1)
      encoded_data == aux.encodings[l]
  IN IF l % 2 = 0
     THEN EncodingProofNew(encoded_node, decoded_node,
                           ParentsData(graph_1, inv_challenge, encoded_data))
     ELSE EncodingProofNew(encoded_node, decoded_node,
                           ParentsData(graph_2, challenge, encoded_data))

\* the proof of partition k (the body of the parallel map of prove_layers)
ProvePartitionOf(graph_0, pub_inputs, aux, layer_challenges, layers, k) ==
  LET chs == challenges(pub_inputs, layer_challenges, graph_0.nodes, k)
      rpcs == [i \in 1 .. Len(chs) |-> ReplicaColumnProofOf(graph_0, aux, layers, chs[i])]
      cds == [i \in 1 .. Len(chs) |-> gen_proof(aux.tree_d, chs[i])]
  IN [comm_d_proofs |-> cds,
      replica_column_proofs |-> rpcs,
      comm_r_last_proofs |-> [i \in 1 .. Len(chs) |-> CommRLastProofOf(graph_0, aux, chs[i])],
      encoding_proof_1 |-> [i \in 1 .. Len(chs) |->
         EncodingProof1Of(graph_0, aux, rpcs[i], cds[i], chs[i])],
      encoding_proofs |-> [i \in 1 .. Len(chs) |->
         [j \in 1 .. (layers - 2) |-> EncodingProofOf(graph_0, aux, rpcs[i], chs[i], j + 1)]]]

\* the debug assertion on every encoding proof of the layers 2 .. layers-1
EncodingProofsValid(proof, rid) ==
  \A i \in 1 .. Len(proof.encoding_proofs) :
    \A j \in 1 .. Len(proof.encoding_proofs[i]) :
      LET ep == proof.encoding_proofs[i][j]
      IN EncodingProofVerify(ep, rid, ep.encoded_node, ep.decoded_node)

\* -------------------------------------------------------------- verifier
AllVerify(cps) == \A j \in 1 .. Len(cps) : ColumnProofVerify(cps[j])

\* the checks of layers 2 .. layers-1 for challenge i, in program order:
\* "panic" when a column has no row for the layer, "false" on a failed check
RECURSIVE CheckEncodingProofs(_, _, _, _)
CheckEncodingProofs(eps, rpc, rid, j) ==
  IF j > Len(eps) THEN "ok"
  ELSE LET l == j + 1
       IN IF ~HasLayer(rpc.c_x, l) \/ ~HasLayer(rpc.c_inv_x, l - 1) THEN "panic"
          ELSE IF ~EncodingProofVerify(eps[j], rid, column_node_at_layer(rpc.c_x, l),
                                       column_node_at_layer(rpc.c_inv_x, l - 1))
          THEN "false"
          ELSE CheckEncodingProofs(eps, rpc, rid, j + 1)

\* the final replica layer openings of challenge i
CheckCommRLast(graph_0, clp, challenge) ==
  LET graph_1 == transform(graph_0)
      inv_challenge == inv_index(graph_0, challenge)
      ps == parents(graph_1, inv_challenge)
  IN /\ proves_challenge(clp.inclusion, inv_challenge)
     /\ Len(ps) = Len(clp.even_parents)
     /\ \A j \in 1 .. Len(ps) : proves_challenge(clp.even_parents[j], ps[j])

\* the replica column openings of challenge i
CheckColumns(rco) ==
  /\ ColumnProofVerify(rco.c_x)
  /\ ColumnProofVerify(rco.c_inv_x)
  /\ AllVerify(rco.drg_parents)
  /\ AllVerify(rco.exp_parents_even)
  /\ AllVerify(rco.exp_parents_odd)

\* a verifier that does not check the encoding of layer 1
CheckEncoding1_skipped(proof, rid, i) == TRUE

\* the encoding check of layer 1 of challenge i
CheckEncoding1(proof, rid, i) ==
  EncodingProofVerify(proof.encoding_proof_1[i], rid,
                      column_node_at_layer(proof.replica_column_proofs[i].c_x, 1),
                      proof.comm_d_proofs[i].leaf)

\* the body of the loop over the challenges, for challenge number i (from
\* 1): every index into the proof's vectors aborts when out of bounds
CheckChallenge(graph_0, pub_inputs, layers, proof, i, challenge) ==
  IF i > Len(proof.comm_d_proofs) THEN "panic"
  ELSE IF ~proves_challenge(proof.comm_d_proofs[i], challenge) THEN "false"
  ELSE IF proof.comm_d_proofs[i].root # pub_inputs.tau.comm_d THEN "false"
  ELSE IF i > Len(proof.replica_column_proofs) THEN "panic"
  ELSE IF ~CheckColumns(proof.replica_column_proofs[i]) THEN "false"
  ELSE IF i > Len(proof.comm_r_last_proofs) THEN "panic"
  ELSE IF ~CheckCommRLast(graph_0, proof.comm_r_last_proofs[i], challenge) THEN "false"
  ELSE IF i > Len(proof.encoding_proof_1) THEN "panic"
  ELSE IF ~HasLayer(proof.replica_column_proofs[i].c_x, 1) THEN "panic"
  ELSE IF ~CheckEncoding1(proof, pub_inputs.replica_id, i) THEN "false"
  ELSE IF i > Len(proof.encoding_proofs) THEN "panic"
  ELSE IF Len(proof.encoding_proofs[i]) # layers - 2 THEN "panic"
  ELSE CheckEncodingProofs(proof.encoding_proofs[i], proof.replica_column_proofs[i],
                           pub_inputs.replica_id, 1)

RECURSIVE CheckChallengesFrom(_, _, _, _, _, _)
CheckChallengesFrom(graph_0, pub_inputs, layers, proof, chs, i) ==
  IF i > Len(chs) THEN "ok"
  ELSE LET r == CheckChallenge(graph_0, pub_inputs, layers, proof, i,
                               chs[i] % graph_0.nodes)
       IN IF r # "ok" THEN r
          ELSE CheckChallengesFrom(graph_0, pub_inputs, layers, proof, chs, i + 1)

\* the closure given to all(): partition k of the slice
VerifyPartitionOf(params, pub_inputs, proof, k) ==
  CheckChallengesFrom(params.graph, pub_inputs, params.layer_challenges.layers, proof,
                      challenges(pub_inputs, params.layer_challenges,
                                 params.graph.nodes, k), 1)

\* ----------------------------------------------------------------- state
VARIABLES sp, replica_id, data0, data, pp, pc, fault,
          layer, current_graph, to_encode, encodings, tree_d,
          os, es, todo, tau, p_aux, t_aux, extracted,
          pub_inputs, proofs, tamper, found_false, valid, fn

vars == <<sp, replica_id, data0, data, pp, pc, fault,
          layer, current_graph, to_encode, encodings, tree_d,
          os, es, todo, tau, p_aux, t_aux, extracted,
          pub_inputs, proofs, tamper, found_false, valid, fn>>

mainVars == <<sp, replica_id, data0, data, pp, pc, fault,
              layer, current_graph, to_encode, encodings, tree_d,
              os, es, todo, tau, p_aux, t_aux, extracted,
              pub_inputs, proofs, tamper, found_false, valid>>

replicateVars == <<layer, current_graph, to_encode, encodings, tree_d, os, es,
                   tau, p_aux, t_aux>>

proofVars == <<pub_inputs, proofs, tamper, found_false, valid>>

inputVars == <<sp, replica_id, data0, pp>>

\* the result of an item is stored at the next free position, in the order
\* in which the items complete
Collect_in_completion_order(results, x, v) ==
  [results EXCEPT ![Len(results) - Cardinality(todo) + 1] = v]

\* collect() of an indexed parallel iterator: the result of item x goes to
\* position x, whatever the order in which the items complete
Collect(results, x, v) == [results EXCEPT ![x + 1] = v]

NoGraph == new_zigzag(0, 0, 0)

NoTAux ==
  [encodings |-> <<>>, tree_d |-> <<>>, tree_r_last |-> <<>>, tree_c |-> <<>>,
   es |-> <<>>, os |-> <<>>]

\* the data buffers tried: node i holds a + b*i, for all a and b
Buffers(n) == {[i \in 1 .. n |-> Mod(a + b * i)] : a, b \in Fr}

\* buffers of a length the graph does not have: constant contents suffice
WrongBuffers(n) == {[i \in 1 .. n |-> v] : v \in Fr}

\* no call of a stand-alone function has been made
NoCall == [op |-> "none"]

\* nothing has run yet
Idle ==
  /\ data = data0
  /\ pp = [ok |-> FALSE, graph |-> NoGraph,
           layer_challenges |-> [layers |-> 0, challenges_count |-> 0]]
  /\ pc = "start"
  /\ fault = "none"
  /\ layer = 0
  /\ current_graph = NoGraph
  /\ to_encode = <<>>
  /\ encodings = <<>>
  /\ tree_d = <<>>
  /\ os = <<>>
  /\ es = <<>>
  /\ todo = {}
  /\ tau = [comm_d |-> 0, comm_r |-> 0]
  /\ p_aux = [comm_c |-> 0, comm_r_last |-> 0]
  /\ t_aux = NoTAux
  /\ extracted = <<>>
  /\ pub_inputs = [replica_id |-> 0, seed |-> NoSeed,
                   tau |-> [comm_d |-> 0, comm_r |-> 0], k |-> NoSeed]
  /\ proofs = <<>>
  /\ tamper = "none"
  /\ found_false = FALSE
  /\ valid = FALSE
  /\ fn = NoCall

Init ==
  /\ sp \in [nodes : 1 .. MaxNodes, seed : 0 .. MaxSeed,
             layers : 1 .. MaxLayers, challenges_count : 1 .. MaxChallenges]
  /\ replica_id \in Fr
  /\ data0 \in WrongBuffers(sp.nodes - 1) \cup Buffers(sp.nodes)
                 \cup WrongBuffers(sp.nodes + 1)
  /\ Idle

Setup ==
  /\ pc = "start"
  /\ pp' = setup(sp)
  /\ pc' = "ready"
  /\ UNCHANGED <<fn, sp, replica_id, data0, data, fault, layer, current_graph,
                 to_encode, encodings, tree_d, os, es, todo, tau, p_aux, t_aux,
                 extracted, proofVars>>

\* replicate, entry: the length assertion, tree_d, and the loop's locals
ReplicateBegin ==
  /\ pc = "ready"
  /\ IF Len(data) # pp.graph.nodes
     THEN /\ pc' = "panic"
          /\ fault' = "replicate: data.len() != nodes_count * NODE_SIZE"
          /\ UNCHANGED <<tree_d, encodings, current_graph, to_encode, layer>>
     ELSE /\ pc' = "encoding"
          /\ tree_d' = build_tree(data)
          /\ encodings' = <<>>
          /\ current_graph' = pp.graph
          /\ to_encode' = data
          /\ layer' = 0
          /\ UNCHANGED fault
  /\ UNCHANGED <<fn, sp, replica_id, data0, data, pp, os, es, todo, tau, p_aux,
                 t_aux, extracted, proofVars>>

\* a pass that takes the snapshot before encoding instead of after
EncodeLayer_snapshot_before ==
  /\ pc = "encoding"
  /\ layer < pp.layer_challenges.layers
  /\ LET encoded == vde_encode(current_graph, replica_id, to_encode)
     IN /\ to_encode' = encoded
        /\ encodings' = IF layer # pp.layer_challenges.layers - 1
                        THEN Append(encodings, to_encode) ELSE encodings
  /\ current_graph' = transform(current_graph)
  /\ layer' = layer + 1
  /\ UNCHANGED <<fn, sp, replica_id, data0, data, pp, pc, fault, tree_d, os, es,
                 todo, tau, p_aux, t_aux, extracted, proofVars>>

\* one pass of the loop `for layer in 0..layers`
EncodeLayer ==
  /\ pc = "encoding"
  /\ layer < pp.layer_challenges.layers
  /\ LET encoded == vde_encode(current_graph, replica_id, to_encode)
     IN /\ to_encode' = encoded
        /\ encodings' = IF layer # pp.layer_challenges.layers - 1
                        THEN Append(encodings, encoded) ELSE encodings
  /\ current_graph' = transform(current_graph)
  /\ layer' = layer + 1
  /\ UNCHANGED <<fn, sp, replica_id, data0, data, pp, pc, fault, tree_d, os, es,
                 todo, tau, p_aux, t_aux, extracted, proofVars>>

\* after the loop: the last layer is copied into the caller's buffer
StoreReplica ==
  /\ pc = "encoding"
  /\ layer = pp.layer_challenges.layers
  /\ data' = to_encode
  /\ pc' = "odd_columns"
  /\ todo' = 0 .. (pp.graph.nodes - 1)
  /\ os' = [i \in 1 .. pp.graph.nodes |-> 0]
  /\ es' = [i \in 1 .. pp.graph.nodes |-> 0]
  /\ UNCHANGED <<fn, sp, replica_id, data0, pp, fault, layer, current_graph,
                 to_encode, encodings, tree_d, tau, p_aux, t_aux, extracted, proofVars>>

\* one item of the parallel map producing os
OddColumnTask(x) ==
  /\ pc = "odd_columns"
  /\ x \in todo
  /\ IF ~InBounds(encodings, OddLayerIdx(pp.layer_challenges.layers))
     THEN /\ pc' = "panic"
          /\ fault' = "get_node_at_layer: index out of bounds"
          /\ UNCHANGED <<os, todo>>
     ELSE /\ os' = Collect(os, x, ColumnHash(
                     get_odd_column(encodings, pp.layer_challenges.layers, x)))
          /\ IF todo = {x}
             THEN pc' = "even_columns" /\ todo' = 0 .. (pp.graph.nodes - 1)
             ELSE pc' = pc /\ todo' = todo \ {x}
          /\ UNCHANGED fault
  /\ UNCHANGED <<fn, sp, replica_id, data0, data, pp, layer, current_graph,
                 to_encode, encodings, tree_d, es, tau, p_aux, t_aux, extracted,
                 proofVars>>

\* one item of the parallel map producing es, with the even column taken
\* at the node itself
EvenColumnTask_at_index(x) ==
  /\ pc = "even_columns"
  /\ x \in todo
  /\ es' = Collect(es, x, ColumnHash(
             get_even_column(encodings, pp.layer_challenges.layers, x)))
  /\ IF todo = {x} THEN pc' = "commit" ELSE pc' = pc
  /\ todo' = todo \ {x}
  /\ UNCHANGED <<fn, sp, replica_id, data0, data, pp, fault, layer, current_graph,
                 to_encode, encodings, tree_d, os, tau, p_aux, t_aux, extracted,
                 proofVars>>

\* one item of the parallel map producing es
EvenColumnTask(x) ==
  /\ pc = "even_columns"
  /\ x \in todo
  /\ es' = Collect(es, x, ColumnHash(
             get_even_column(encodings, pp.layer_challenges.layers,
                             inv_index(pp.graph, x))))
  /\ IF todo = {x} THEN pc' = "commit" ELSE pc' = pc
  /\ todo' = todo \ {x}
  /\ UNCHANGED <<fn, sp, replica_id, data0, data, pp, fault, layer, current_graph,
                 to_encode, encodings, tree_d, os, tau, p_aux, t_aux, extracted,
                 proofVars>>

\* the column commitments, the two trees and the returned values, with the
\* two halves of comm_r hashed in the other order
FinishReplicate_comm_r_swapped ==
  /\ pc = "commit"
  /\ LET cs == [i \in 1 .. Len(os) |-> hash2(os[i], es[i])]
         tree_c == build_tree(cs)
         tree_r_last == build_tree(to_encode)
         comm_r == Hash(<<TreeRoot(tree_r_last), TreeRoot(tree_c)>>)
     IN /\ tau' = [comm_d |-> TreeRoot(tree_d), comm_r |-> comm_r]
        /\ p_aux' = [comm_c |-> TreeRoot(tree_c), comm_r_last |-> TreeRoot(tree_r_last)]
        /\ t_aux' = [encodings |-> encodings, tree_d |-> tree_d,
                     tree_r_last |-> tree_r_last, tree_c |-> tree_c,
                     es |-> es, os |-> os]
  /\ pc' = "replicated"
  /\ UNCHANGED <<fn, sp, replica_id, data0, data, pp, fault, layer, current_graph,
                 to_encode, encodings, tree_d, os, es, todo, extracted, proofVars>>

\* the column commitments, the two trees and the returned values
FinishReplicate ==
  /\ pc = "commit"
  /\ LET cs == [i \in 1 .. Len(os) |-> hash2(os[i], es[i])]
         tree_c == build_tree(cs)
         tree_r_last == build_tree(to_encode)
         comm_r == Hash(<<TreeRoot(tree_c), TreeRoot(tree_r_last)>>)
     IN /\ tau' = [comm_d |-> TreeRoot(tree_d), comm_r |-> comm_r]
        /\ p_aux' = [comm_c |-> TreeRoot(tree_c), comm_r_last |-> TreeRoot(tree_r_last)]
        /\ t_aux' = [encodings |-> encodings, tree_d |-> tree_d,
                     tree_r_last |-> tree_r_last, tree_c |-> tree_c,
                     es |-> es, os |-> os]
  /\ pc' = "replicated"
  /\ UNCHANGED <<fn, sp, replica_id, data0, data, pp, fault, layer, current_graph,
                 to_encode, encodings, tree_d, os, es, todo, extracted, proofVars>>

ExtractAll ==
  /\ pc = "replicated"
  /\ extracted' = extract_all(pp, replica_id, data)
  /\ pc' = "extracted"
  /\ UNCHANGED <<fn, sp, replica_id, data0, data, pp, fault, layer, current_graph,
                 to_encode, encodings, tree_d, os, es, todo, tau, p_aux, t_aux,
                 proofVars>>

\* ------------------------------------------------------- prove / verify
\* prove_all_partitions, entry: the public inputs built from tau, and one
\* work item per partition
ProveBegin(partition_count, seed) ==
  /\ pc = "replicated"
  /\ pub_inputs' = [replica_id |-> replica_id, seed |-> seed, tau |-> tau,
                    k |-> NoSeed]
  /\ proofs' = [k \in 1 .. partition_count |->
                  [comm_d_proofs |-> <<>>, replica_column_proofs |-> <<>>,
                   comm_r_last_proofs |-> <<>>, encoding_proof_1 |-> <<>>,
                   encoding_proofs |-> <<>>]]
  /\ todo' = 0 .. (partition_count - 1)
  /\ pc' = "proving"
  /\ UNCHANGED <<fn, inputVars, data, fault, replicateVars, extracted, tamper,
                 found_false, valid>>

\* one item of the parallel map of prove_layers
ProvePartition(k) ==
  /\ pc = "proving"
  /\ k \in todo
  /\ IF DerivePanics(pp.graph.nodes)
     THEN /\ pc' = "panic"
          /\ fault' = "derive: no challengeable node"
          /\ UNCHANGED <<proofs, todo>>
     ELSE LET proof == ProvePartitionOf(pp.graph, pub_inputs, t_aux,
                                        pp.layer_challenges,
                                        pp.layer_challenges.layers, k)
          IN IF ~EncodingProofsValid(proof, pub_inputs.replica_id)
             THEN /\ pc' = "panic"
                  /\ fault' = "Invalid encoding proof generated"
                  /\ UNCHANGED <<proofs, todo>>
             ELSE /\ proofs' = Collect(proofs, k, proof)
                  /\ todo' = todo \ {k}
                  /\ pc' = IF todo = {k} THEN "proved" ELSE pc
                  /\ UNCHANGED fault
  /\ UNCHANGED <<fn, inputVars, data, replicateVars, extracted, pub_inputs, tamper,
                 found_false, valid>>

\* the values of pub_inputs.k: None, or Some(k)
PartitionChoices ==
  {NoSeed} \cup {[some |-> TRUE, value |-> k] : k \in 0 .. (MaxPartitions - 1)}

\* prove: the proofs of prove_all_partitions with a partition count of 1,
\* then the entry at pub_inputs.k (0 when None) of that list; the one item
\* of the map is run within the call
Prove(k_opt, seed) ==
  /\ pc = "replicated"
  /\ LET pub_in == [replica_id |-> replica_id, seed |-> seed, tau |-> tau,
                    k |-> k_opt]
         list == [n \in 1 .. 1 |->
                    ProvePartitionOf(pp.graph, pub_in, t_aux, pp.layer_challenges,
                                     pp.layer_challenges.layers, n - 1)]
         k == IF k_opt.some THEN k_opt.value ELSE 0
     IN /\ pub_inputs' = pub_in
        /\ IF DerivePanics(pp.graph.nodes)
           THEN /\ pc' = "panic"
                /\ fault' = "derive: no challengeable node"
                /\ UNCHANGED proofs
           ELSE IF ~EncodingProofsValid(list[1], pub_in.replica_id)
           THEN /\ pc' = "panic"
                /\ fault' = "Invalid encoding proof generated"
                /\ UNCHANGED proofs
           ELSE IF k >= Len(list)
           THEN /\ pc' = "panic"
                /\ fault' = "prove: index out of bounds"
                /\ UNCHANGED proofs
           ELSE /\ proofs' = <<list[k + 1]>>
                /\ pc' = "proved one"
                /\ UNCHANGED fault
  /\ UNCHANGED <<fn, inputVars, data, replicateVars, extracted, todo, tamper,
                 found_false, valid>>

\* verify_all_partitions, entry: one work item per proof of the slice
VerifyBegin ==
  /\ pc = "proved"
  /\ todo' = 0 .. (Len(proofs) - 1)
  /\ found_false' = FALSE
  /\ pc' = "verifying"
  /\ UNCHANGED <<fn, inputVars, data, fault, replicateVars, extracted, pub_inputs,
                 proofs, tamper, valid>>

\* one item of the parallel all(): a failed check makes the result false,
\* an out-of-bounds index or failed assertion aborts
VerifyPartition(k) ==
  /\ pc = "verifying"
  /\ k \in todo
  /\ LET r == VerifyPartitionOf(pp, pub_inputs, proofs[k + 1], k)
     IN IF r = "panic"
        THEN /\ pc' = "panic"
             /\ fault' = "verify_all_partitions: index or assertion"
             /\ UNCHANGED <<todo, found_false>>
        ELSE /\ found_false' = (found_false \/ r = "false")
             /\ todo' = todo \ {k}
             /\ UNCHANGED <<pc, fault>>
  /\ UNCHANGED <<fn, inputVars, data, replicateVars, extracted, pub_inputs, proofs,
                 tamper, valid>>

\* all() returns once every item passed, or as soon as one item failed
VerifyFinish ==
  /\ pc = "verifying"
  /\ todo = {} \/ found_false
  /\ valid' = ~found_false
  /\ pc' = "verified"
  /\ UNCHANGED <<fn, inputVars, data, fault, replicateVars, extracted, pub_inputs,
                 proofs, tamper, found_false, todo>>

\* ------------------------------------------------------------- adversary
\* The proofs handed to the verifier need not be the prover's: between
\* proving and verifying, one of the following changes is made to them.

\* one parent label of one encoding proof is replaced by another value
\* (l = 1: encoding_proof_1[i]; l >= 2: encoding_proofs[i][l-1])
TamperParent(k, i, l, j, v) ==
  /\ pc = "proved"
  /\ tamper = "none"
  /\ k \in 1 .. Len(proofs)
  /\ i \in 1 .. Len(proofs[k].encoding_proof_1)
  /\ l \in 1 .. (Len(proofs[k].encoding_proofs[i]) + 1)
  /\ LET ep == IF l = 1 THEN proofs[k].encoding_proof_1[i]
               ELSE proofs[k].encoding_proofs[i][l - 1]
     IN /\ j \in 1 .. Len(ep.parents)
        /\ v # ep.parents[j]
        /\ proofs' = IF l = 1
                     THEN [proofs EXCEPT ![k].encoding_proof_1[i].parents[j] = v]
                     ELSE [proofs EXCEPT ![k].encoding_proofs[i][l - 1].parents[j] = v]
  /\ tamper' = "parent"
  /\ UNCHANGED <<fn, inputVars, data, pc, fault, replicateVars, todo, extracted,
                 pub_inputs, found_false, valid>>

DropLast(s) == SubSeq(s, 1, Len(s) - 1)

ProofVectors ==
  {"comm_d_proofs", "replica_column_proofs", "comm_r_last_proofs",
   "encoding_proof_1", "encoding_proofs"}

\* proof pr with its vector f shortened by its last entry, or with one
\* entry too many in the encoding proofs of its last challenge
WithLength(pr, f) ==
  IF f = "comm_d_proofs"
  THEN [pr EXCEPT !.comm_d_proofs = DropLast(@)]
  ELSE IF f = "replica_column_proofs"
  THEN [pr EXCEPT !.replica_column_proofs = DropLast(@)]
  ELSE IF f = "comm_r_last_proofs"
  THEN [pr EXCEPT !.comm_r_last_proofs = DropLast(@)]
  ELSE IF f = "encoding_proof_1"
  THEN [pr EXCEPT !.encoding_proof_1 = DropLast(@)]
  ELSE IF f = "encoding_proofs"
  THEN [pr EXCEPT !.encoding_proofs = DropLast(@)]
  ELSE [pr EXCEPT !.encoding_proofs[Len(pr.encoding_proofs)] =
                    Append(@, pr.encoding_proof_1[1])]

\* one of the proof's vectors loses its last entry, or the encoding proofs
\* of the last challenge get one entry too many
TamperLength(k, f) ==
  /\ pc = "proved"
  /\ tamper = "none"
  /\ k \in 1 .. Len(proofs)
  /\ Len(proofs[k].encoding_proofs) > 0
  /\ proofs' = [proofs EXCEPT ![k] = WithLength(@, f)]
  /\ tamper' = "length"
  /\ UNCHANGED <<fn, inputVars, data, pc, fault, replicateVars, todo, extracted,
                 pub_inputs, found_false, valid>>

\* two proofs of the slice are changed: the first parent label of the
\* layer-1 encoding proof of partition k1, and the length of vector f of
\* another partition k2
TamperParentAndLength(k1, k2, f) ==
  /\ pc = "proved"
  /\ tamper = "none"
  /\ k1 \in 1 .. Len(proofs)
  /\ k2 \in 1 .. Len(proofs)
  /\ k1 # k2
  /\ Len(proofs[k1].encoding_proof_1) > 0
  /\ Len(proofs[k2].encoding_proofs) > 0
  /\ proofs' = [proofs EXCEPT
                  ![k1].encoding_proof_1[1].parents[1] = Mod(@ + 1),
                  ![k2] = WithLength(@, f)]
  /\ tamper' = "parent and length"
  /\ UNCHANGED <<fn, inputVars, data, pc, fault, replicateVars, todo, extracted,
                 pub_inputs, found_false, valid>>

\* the data leaf of challenge i is replaced by v; the label of layer 1 in
\* c_x is re-encoded from v, and the inclusion proof of c_x is rebuilt for
\* the changed column: same path, the leaf and root recomputed.  The stated
\* root of the data opening and its path are left as the prover made them.
TamperOpening(k, i, v) ==
  /\ pc = "proved"
  /\ tamper = "none"
  /\ k \in 1 .. Len(proofs)
  /\ i \in 1 .. Len(proofs[k].comm_d_proofs)
  /\ v # proofs[k].comm_d_proofs[i].leaf
  /\ LET pr == proofs[k]
         c_x == pr.replica_column_proofs[i].c_x
         label == encode(KeyOf(replica_id, pr.encoding_proof_1[i].parents), v)
         column == [c_x.column EXCEPT !.rows[1] = label]
         leaf == ColumnHash(column)
         forged == [column |-> column, other |-> c_x.other,
                    inclusion_proof |->
                      [leaf |-> leaf, path |-> c_x.inclusion_proof.path,
                       root |-> PathRoot(leaf, c_x.inclusion_proof.path, 1)]]
     IN proofs' = [proofs EXCEPT ![k].comm_d_proofs[i].leaf = v,
                                 ![k].replica_column_proofs[i].c_x = forged]
  /\ tamper' = "opening"
  /\ UNCHANGED <<fn, inputVars, data, pc, fault, replicateVars, todo, extracted,
                 pub_inputs, found_false, valid>>

Tamper ==
  \/ \E k \in 1 .. MaxPartitions, i \in 1 .. MaxChallenges, l \in 1 .. MaxLayers,
        j \in 1 .. (BaseDegree + ExpDegree), v \in Fr : TamperParent(k, i, l, j, v)
  \/ \E k \in 1 .. MaxPartitions, f \in ProofVectors \cup {"encoding_proofs[i]"} :
        TamperLength(k, f)
  \/ \E k \in 1 .. MaxPartitions, i \in 1 .. MaxChallenges, v \in Fr :
        TamperOpening(k, i, v)
  \/ \E k1 \in 1 .. MaxPartitions, k2 \in 1 .. MaxPartitions, f \in ProofVectors :
        TamperParentAndLength(k1, k2, f)

Next ==
  \/ Setup
  \/ ReplicateBegin
  \/ EncodeLayer
  \/ StoreReplica
  \/ \E x \in 0 .. (MaxNodes - 1) : OddColumnTask(x)
  \/ \E x \in 0 .. (MaxNodes - 1) : EvenColumnTask(x)
  \/ FinishReplicate
  \/ ExtractAll
  \/ \E n \in 1 .. MaxPartitions, seed \in SeedChoices : ProveBegin(n, seed)
  \/ \E k \in 0 .. (MaxPartitions - 1) : ProvePartition(k)
  \/ \E k_opt \in PartitionChoices, seed \in SeedChoices : Prove(k_opt, seed)
  \/ Tamper
  \/ VerifyBegin
  \/ \E k \in 0 .. (MaxPartitions - 1) : VerifyPartition(k)
  \/ VerifyFinish

Spec == Init /\ [][Next]_vars

\* ------------------------------------------------ stand-alone functions
\* Functions that take their arguments from the caller and touch no state
\* of a replication: one call is made and recorded in fn, arguments and
\* result.
WordSize == 2 ^ WordBits

Words == 0 .. (WordSize - 1)

\* partition_challenges * partitions >= minimum_challenges, in usize: a
\* product that does not fit aborts in a build with overflow checks and
\* wraps in a build without
satisfies_requirements(public_params, requirements, partitions, overflow_checks) ==
  LET partition_challenges == public_params.layer_challenges.challenges_count
      product == partition_challenges * partitions
  IN IF product >= WordSize /\ overflow_checks THEN "panic"
     ELSE IF (product % WordSize) >= requirements.minimum_challenges THEN "true"
     ELSE "false"

SatisfiesRequirements(c, partitions, minimum, overflow_checks) ==
  /\ fn = NoCall
  /\ fn' = [op |-> "satisfies_requirements",
            challenges_count |-> c,
            partitions |-> partitions,
            minimum_challenges |-> minimum,
            result |-> satisfies_requirements(
                         [layer_challenges |-> [layers |-> 1, challenges_count |-> c]],
                         [minimum_challenges |-> minimum],
                         partitions, overflow_checks)]
  /\ UNCHANGED mainVars

\* ---- crypto/kdf.rs
\* A digest has DigestBits bits: the group order lies between a quarter
\* and a half of the digests' range, as the order of the scalar field of
\* BLS12-381 does between 2^254 and 2^255.
ByteSize == 2 ^ ByteBits

DigestBits == ByteBits * ReprBytes

DigestSize == 2 ^ DigestBits

GroupOrder == 2 ^ (DigestBits - 2) + 3

ByteStrings == UNION {[1 .. n -> 0 .. (ByteSize - 1)] : n \in 0 .. MaxDataLen}

\* the digest of a byte string, as the little-endian integer of its bytes
RECURSIVE Blake2s(_)
Blake2s(bytes) ==
  IF bytes = <<>> THEN 1
  ELSE (5 * Blake2s(SubSeq(bytes, 1, Len(bytes) - 1)) + bytes[Len(bytes)] + 1)
         % DigestSize

\* the digest with its two most significant bits cleared
bytes_into_fr_repr_safe(hash) == hash % (2 ^ (DigestBits - 2))

\* from_repr: a representation that is not below the group order is refused
from_repr(repr) ==
  IF repr < GroupOrder THEN [ok |-> TRUE, value |-> repr]
  ELSE [ok |-> FALSE, value |-> 0]

\* a kdf that reduces the digest modulo the group order
kdf_mod_order(bytes) == [ok |-> TRUE, value |-> Blake2s(bytes) % GroupOrder]

\* kdf: ok is false when unwrap() aborts
kdf(bytes) == from_repr(bytes_into_fr_repr_safe(Blake2s(bytes)))

Kdf(bytes) ==
  /\ fn = NoCall
  /\ fn' = [op |-> "kdf", data |-> bytes, result |-> kdf(bytes)]
  /\ UNCHANGED mainVars

\* ---- circuit/stacked/hash.rs
\* Bits are 0 and 1.  A field element takes NumBits bits, of which Capacity
\* can hold any value.
NumBits == DigestBits - 1

Capacity == NumBits - 1

None == [some |-> FALSE, value |-> 0]

Some(v) == [some |-> TRUE, value |-> v]

\* the columns tried: every row is None or an element of the field
Columns ==
  UNION {[1 .. n -> {None} \cup {Some(v) : v \in 0 .. (GroupOrder - 1)}] :
           n \in 0 .. MaxRows}

\* the first n bits of v, least significant first
BitsLE(v, n) == [i \in 1 .. n |-> (v \div (2 ^ (i - 1))) % 2]

RECURSIVE FromBitsLE(_)
FromBitsLE(bits) ==
  IF bits = <<>> THEN 0 ELSE Head(bits) + 2 * FromBitsLE(Tail(bits))

RECURSIVE Concat(_)
Concat(seqs) == IF seqs = <<>> THEN <<>> ELSE Head(seqs) \o Concat(Tail(seqs))

\* while bits.len() % 8 > 0 { bits.push(false) }
PadToByte(bits) ==
  bits \o [i \in 1 .. ((ByteBits - (Len(bits) % ByteBits)) % ByteBits) |-> 0]

\* chunks(8).flat_map(|chunk| chunk.iter().rev()), on whole bytes
ReverseChunks(bits) ==
  [p \in 1 .. Len(bits) |->
     bits[((p - 1) \div ByteBits) * ByteBits + (ByteBits - ((p - 1) % ByteBits))]]

\* fr_into_bytes: the bytes of a field element, least significant first
fr_into_bytes(v) ==
  [i \in 1 .. ReprBytes |-> (v \div (ByteSize ^ (i - 1))) % ByteSize]

\* SHA-256 of a byte string: the digest, as its sequence of bytes
RECURSIVE ShaState(_)
ShaState(bytes) ==
  IF bytes = <<>> THEN 2
  ELSE (3 * ShaState(SubSeq(bytes, 1, Len(bytes) - 1)) + bytes[Len(bytes)] + 1)
         % DigestSize

Sha256(bytes) ==
  [i \in 1 .. ReprBytes |-> (ShaState(bytes) \div (ByteSize ^ (i - 1))) % ByteSize]

\* the SHA-256 gadget: the same digest on bits, every byte of the input and
\* of the output with its most significant bit first
sha256_circuit(bits) ==
  LET le == ReverseChunks(bits)
      bytes == [c \in 1 .. (Len(bits) \div ByteBits) |->
                  FromBitsLE(SubSeq(le, (c - 1) * ByteBits + 1, c * ByteBits))]
      digest == Sha256(bytes)
  IN ReverseChunks(Concat([c \in 1 .. ReprBytes |-> BitsLE(digest[c], ByteBits)]))

\* the hash of a column outside a circuit: SHA-256 of the rows' bytes, the
\* two most significant bits of the last byte cleared, as a field element
vanilla_hash_single_column(column) ==
  LET res == Sha256(Concat(column))
      trimmed == [res EXCEPT ![ReprBytes] = @ % (ByteSize \div 4)]
  IN FromBitsLE(Concat([c \in 1 .. ReprBytes |-> BitsLE(trimmed[c], ByteBits)]))

\* hash_single_column in a constraint system.  evaluates: the constraint
\* system calls the closure that gives the value of an allocated variable
\* (proving, testing); otherwise it allocates the variable only (setup).
\* The result is the error returned, or the allocated number with its value
\* and whether the assignment satisfies the constraints made: those of
\* to_bits_le, that the bits of a row make up the row; the gadget's own
\* hold of the bits it assigns; result_num is allocated without constraint.
CircuitHash(rows, evaluates, bytes_reversed) ==
  IF evaluates /\ \E i \in 1 .. Len(rows) : ~rows[i].some
  THEN [status |-> "AssignmentMissing", value |-> None, satisfied |-> FALSE]
  ELSE IF ~evaluates
  THEN [status |-> "ok", value |-> None, satisfied |-> FALSE]
  ELSE LET row_bits == [i \in 1 .. Len(rows) |-> BitsLE(rows[i].value, NumBits)]
           bits == Concat([i \in 1 .. Len(rows) |->
                             ReverseChunks(PadToByte(row_bits[i]))])
           alloc_bits == sha256_circuit(bits)
           le_bits == SubSeq(IF bytes_reversed THEN ReverseChunks(alloc_bits)
                             ELSE alloc_bits, 1, Capacity)
       IN [status |-> "ok",
           value |-> Some(FromBitsLE(le_bits)),
           satisfied |->
             \A i \in 1 .. Len(rows) :
               FromBitsLE(row_bits[i]) % GroupOrder = rows[i].value]

\* the digest's bits taken in the order the gadget gives them
hash_single_column_unreversed(rows, evaluates) == CircuitHash(rows, evaluates, FALSE)

hash_single_column(rows, evaluates) == CircuitHash(rows, evaluates, TRUE)

HashSingleColumn(rows, evaluates) ==
  /\ fn = NoCall
  /\ fn' = [op |-> "hash_single_column", rows |-> rows, evaluates |-> evaluates,
            result |-> hash_single_column(rows, evaluates)]
  /\ UNCHANGED mainVars

\* ---- zigzag/proof.rs, PublicInputs::challenges called on its own
Challenges(rid, seed, comm_r, count, leaves, partition_k) ==
  /\ fn = NoCall
  /\ LET layer_challenges == [layers |-> 2, challenges_count |-> count]
         pub_in == [replica_id |-> rid, seed |-> seed,
                    tau |-> [comm_d |-> 0, comm_r |-> comm_r], k |-> NoSeed]
     IN fn' = [op |-> "challenges", pub_inputs |-> pub_in,
               layer_challenges |-> layer_challenges, leaves |-> leaves,
               partition_k |-> partition_k,
               result |-> challenges(pub_in, layer_challenges, leaves,
                                     partition_k)]
  /\ UNCHANGED mainVars

\* ---- zigzag/proof.rs, with_partition: the public inputs of one partition
with_partition(pub_in, k) ==
  [replica_id |-> pub_in.replica_id, seed |-> NoSeed, tau |-> pub_in.tau, k |-> k]

WithPartition(pub_in, k) ==
  /\ fn = NoCall
  /\ fn' = [op |-> "with_partition", pub_in |-> pub_in, k |-> k,
            result |-> with_partition(pub_in, k)]
  /\ UNCHANGED mainVars

FnInit ==
  /\ sp = [nodes |-> 1, seed |-> 0, layers |-> 1, challenges_count |-> 1]
  /\ replica_id = 0
  /\ data0 = <<0>>
  /\ Idle

FnNext ==
  \/ \E c \in Words, partitions \in Words, minimum \in Words,
        overflow_checks \in BOOLEAN :
        SatisfiesRequirements(c, partitions, minimum, overflow_checks)
  \/ \E bytes \in ByteStrings : Kdf(bytes)
  \/ \E rows \in Columns, evaluates \in BOOLEAN : HashSingleColumn(rows, evaluates)
  \/ \E rid \in Fr, seed \in SeedChoices, comm_r \in Fr,
        count \in 1 .. MaxChallenges, leaves \in 3 .. MaxLeaves,
        partition_k \in 0 .. MaxPartitionIndex :
        Challenges(rid, seed, comm_r, count, leaves, partition_k)
  \/ \E rid \in Fr, seed \in SeedChoices, comm_d \in Fr, comm_r \in Fr,
        k0 \in PartitionChoices, k \in PartitionChoices :
        WithPartition([replica_id |-> rid, seed |-> seed,
                       tau |-> [comm_d |-> comm_d, comm_r |-> comm_r],
                       k |-> k0], k)

FnSpec == FnInit /\ [][FnNext]_vars

\* ------------------------------------------------------------ properties
IsPow2(n) == next_pow2(n) = n

VerifyPanicked == pc = "panic" /\ fault = "verify_all_partitions: index or assertion"

\* the graph of the l-th pass (l from 1): zigzag applied l-1 times
RECURSIVE ZigzagTimes(_, _)
ZigzagTimes(g, n) == IF n = 0 THEN g ELSE zigzag(ZigzagTimes(g, n - 1))

\* E_l: E_0 is the input, E_l the encoding of E_{l-1} with the l-th graph
RECURSIVE E(_)
E(l) ==
  IF l = 0 THEN data0
  ELSE vde_encode(ZigzagTimes(new_zigzag(sp.nodes, 0, sp.seed), l - 1),
                  replica_id, E(l - 1))

\* the commitments of the run that handles the nodes in index order
SequentialTau ==
  LET L == sp.layers
      g == new_zigzag(sp.nodes, 0, sp.seed)
      enc == [l \in 1 .. (L - 1) |-> E(l)]
      cs == [i \in 1 .. sp.nodes |->
               hash2(ColumnHash(get_odd_column(enc, L, i - 1)),
                     ColumnHash(get_even_column(enc, L, inv_index(g, i - 1))))]
  IN [comm_d |-> TreeRoot(build_tree(data0)),
      comm_r |-> Hash(<<TreeRoot(build_tree(cs)), TreeRoot(build_tree(E(L)))>>)]

ColumnProofsOf(rcp) ==
  <<rcp.c_x, rcp.c_inv_x>> \o rcp.drg_parents \o rcp.exp_parents_even
    \o rcp.exp_parents_odd

CommCRoots(proof) ==
  {ColumnProofsOf(proof.replica_column_proofs[i])[j].inclusion_proof.root :
     i \in 1 .. Len(proof.replica_column_proofs),
     j \in 1 .. (2 + BaseDegree + 2 * ExpDegree)}

CommRLastRoots(proof) ==
  {proof.comm_r_last_proofs[i].inclusion.root : i \in 1 .. Len(proof.comm_r_last_proofs)}
  \cup {proof.comm_r_last_proofs[i].even_parents[j].root :
          i \in 1 .. Len(proof.comm_r_last_proofs), j \in 1 .. (BaseDegree + ExpDegree)}

\* C1: for every layer count and every data buffer of the graph's length,
\* replicate returns and extract_all of the replica, with the same public
\* params, is the original data
C1_RoundTrip ==
  Len(data0) = sp.nodes =>
    /\ ~(pc = "panic" /\ fault = "get_node_at_layer: index out of bounds")
    /\ pc = "extracted" => extracted = data0

\* C2: the proofs of prove_all_partitions, for every partition count, are
\* accepted by verify_all_partitions: no partition fails a check, and the
\* verifier does not abort
C2_Completeness ==
  tamper = "none" =>
    /\ pc = "verified" => valid
    /\ pc = "verifying" => ~found_false
    /\ ~VerifyPanicked

C2_Witness ==
  /\ tamper = "none"
  /\ pc = "verified"
  /\ valid
  /\ Len(proofs) = 2
  /\ sp.layers = 4

\* C3: verify_all_partitions returns a boolean for every slice of proofs;
\* it never aborts
C3_VerifyNeverPanics == ~VerifyPanicked

\* C4: verify_all_partitions returns true only if, in every partition, all
\* column proofs open against one root comm_c, all final-layer proofs open
\* against one root comm_r_last, and H(comm_c || comm_r_last) = tau.comm_r
C4_CommitmentBinding ==
  (pc = "verified" /\ valid) =>
    \A k \in 1 .. Len(proofs) :
      \E c \in CommCRoots(proofs[k]), r \in CommRLastRoots(proofs[k]) :
        /\ CommCRoots(proofs[k]) = {c}
        /\ CommRLastRoots(proofs[k]) = {r}
        /\ Hash(<<c, r>>) = pub_inputs.tau.comm_r

\* C5: once one parent label of one encoding proof of an honest proof has
\* been changed, verify_all_partitions returns false
C5_TamperDetected ==
  tamper = "parent" =>
    /\ pc = "verified" => ~valid
    /\ (pc = "verifying" /\ todo = {}) => found_false

C5_Witness ==
  /\ tamper = "parent"
  /\ pc = "verified"
  /\ ~valid

\* C6: verify_all_partitions returns true only if every comm_d_proofs[i] is
\* a valid Merkle inclusion proof, at the challenge's position, under the
\* root tau.comm_d
C6_DataOpeningChecked ==
  (pc = "verified" /\ valid) =>
    \A k \in 1 .. Len(proofs) :
      \A i \in 1 .. Len(proofs[k].comm_d_proofs) :
        /\ proofs[k].comm_d_proofs[i].root = pub_inputs.tau.comm_d
        /\ validate(proofs[k].comm_d_proofs[i])

\* C7: whatever the order in which the parallel column-hashing items
\* complete, replicate returns the replica and the tau of the run that
\* handles the nodes in index order
C7_Determinism ==
  pc = "replicated" =>
    /\ data = E(sp.layers)
    /\ tau = SequentialTau

C7_Witness ==
  /\ pc = "replicated"
  /\ sp.nodes = 4
  /\ \E i, j \in 1 .. Len(os) : os[i] # os[j]

\* C8 (as stated): setup with a node count that is not a power of two
\* does not return public params
C8_RejectsNonPow2 ==
  (pc # "start" /\ ~IsPow2(sp.nodes)) => ~pp.ok

\* C8 (amended): setup does not check the node count; for every node
\* count, power of two or not, it returns public params whose graph has
\* that many nodes and is the graph of layer 0
C8_SetupAccepts ==
  pc # "start" =>
    /\ pp.ok
    /\ pp.graph.nodes = sp.nodes
    /\ pp.graph.layer = 0
    /\ pp.layer_challenges.layers = sp.layers

C8_Witness ==
  /\ pc = "replicated"
  /\ sp.nodes = 3
  /\ pp.ok

\* C9: replicate with a data buffer of the wrong length returns an error
\* value, without aborting, and leaves the buffer unchanged
C9_WrongLengthIsError ==
  Len(data0) # sp.nodes =>
    /\ pc # "panic"
    /\ data = data0

\* C10: the snapshots taken so far are E_1, E_2, ... in layer order at
\* every point of replicate and afterwards (so no pass alters an earlier
\* one), and when replicate has returned there are layers-1 of them and
\* the caller's buffer is E_layers
C10_Encodings ==
  /\ \A l \in 1 .. Len(encodings) : encodings[l] = E(l)
  /\ pc = "replicated" =>
       /\ data = E(sp.layers)
       /\ t_aux.encodings = [l \in 1 .. (sp.layers - 1) |-> E(l)]

C10_Witness ==
  /\ pc = "replicated"
  /\ sp.layers = 4
  /\ Len(t_aux.encodings) = 3
  /\ t_aux.encodings[1] # t_aux.encodings[2]

\* C11: what replicate returns is consistent: p_aux.comm_c is the root of
\* t_aux.tree_c, p_aux.comm_r_last the root of t_aux.tree_r_last, which is
\* the tree over the replica E_layers, tau.comm_d the root of t_aux.tree_d,
\* and tau.comm_r = H(comm_c || comm_r_last)
C11_Commitments ==
  pc = "replicated" =>
    /\ p_aux.comm_c = TreeRoot(t_aux.tree_c)
    /\ p_aux.comm_r_last = TreeRoot(t_aux.tree_r_last)
    /\ t_aux.tree_r_last = build_tree(E(sp.layers))
    /\ tau.comm_d = TreeRoot(t_aux.tree_d)
    /\ tau.comm_r = Hash(<<p_aux.comm_c, p_aux.comm_r_last>>)

C11_Witness ==
  /\ pc = "replicated"
  /\ sp.layers = 2
  /\ p_aux.comm_c # p_aux.comm_r_last
  /\ tau.comm_r # tau.comm_d

\* the encodings of a finished encoding loop: layers - 1 stored buffers
\* (the functions' own precondition, debug_assert_eq!(encodings.len(), layers - 1))
EncodingsStored ==
  /\ pc \notin {"start", "ready"}
  /\ Len(data0) = sp.nodes
  /\ Len(encodings) = sp.layers - 1

\* itertools' interleave: alternate, then the rest of the longer one
RECURSIVE Interleave(_, _)
Interleave(a, b) ==
  IF a = <<>> THEN b ELSE <<Head(a)>> \o Interleave(b, Tail(a))

\* C12: for every layer count and every node x, get_odd_column(x) returns,
\* the rows of get_full_column(x) are the interleaving of the rows of
\* get_odd_column(x) and of get_even_column(inv_index(x)), and the hash of
\* the full column is H2 of the hashes of the odd and the even column
C12_ColumnConsistency ==
  EncodingsStored =>
    \A x \in 0 .. (sp.nodes - 1) :
      /\ InBounds(encodings, OddLayerIdx(sp.layers))
      /\ LET g == new_zigzag(sp.nodes, 0, sp.seed)
             odd == get_odd_column(encodings, sp.layers, x)
             even == get_even_column(encodings, sp.layers, inv_index(g, x))
             all == get_full_column(encodings, g, sp.layers, x)
         IN /\ all.index = x
            /\ all.rows = Interleave(odd.rows, even.rows)
            /\ ColumnHash(all) = hash2(ColumnHash(odd), ColumnHash(even))

\* the odd layers of [1, to] and the even layers of [1, to], in order
LayersOfParity(parity, to) ==
  [j \in 1 .. ((to + parity) \div 2) |-> 2 * j - parity]

\* C13: for every layer count L >= 2, odd or even, and every node x,
\* get_odd_column reads no index outside the L-1 stored encodings and
\* returns E_l[x] for the odd l of [1, L]; get_even_column likewise returns
\* E_l[x] for the even l of [1, L-1]
C13_LayerSelection ==
  (EncodingsStored /\ sp.layers >= 2) =>
    \A x \in 0 .. (sp.nodes - 1) :
      /\ InBounds(encodings, EvenLayerIdx(sp.layers))
      /\ get_even_column(encodings, sp.layers, x).rows =
           [j \in 1 .. ((sp.layers - 1) \div 2) |->
              E(LayersOfParity(0, sp.layers - 1)[j])[x + 1]]
      /\ InBounds(encodings, OddLayerIdx(sp.layers))
      /\ get_odd_column(encodings, sp.layers, x).rows =
           [j \in 1 .. ((sp.layers + 1) \div 2) |->
              E(LayersOfParity(1, sp.layers)[j])[x + 1]]

\* C14: satisfies_requirements returns exactly whether
\* challenges_count * partitions >= minimum_challenges, for all values of
\* the three, products that exceed the machine word included
C14_ChallengeCount ==
  fn.op = "satisfies_requirements" =>
    fn.result = IF fn.challenges_count * fn.partitions >= fn.minimum_challenges
                THEN "true" ELSE "false"

\* the graph of layer l, from the graph g of layer 0
RECURSIVE LayerGraph(_, _)
LayerGraph(g, l) == IF l = 0 THEN g ELSE transform(LayerGraph(g, l - 1))

ExpSet(g, x) == {expanded_parents(g, x)[j] : j \in 1 .. ExpDegree}

PartitionOutcome(k) == VerifyPartitionOf(pp, pub_inputs, proofs[k], k - 1)

\* C16: prove_all_partitions returns a proof list only when every partition
\* was proved, and then a complete one; when a check fails for a challenge
\* of a partition, verify_all_partitions returns false, it does not end
\* otherwise; and it returns true only when every check of every partition
\* passed
C16_FailurePropagation ==
  /\ (pc = "proved" /\ tamper = "none") =>
       \A k \in 1 .. Len(proofs) :
         Len(proofs[k].comm_d_proofs) = pp.layer_challenges.challenges_count
  /\ (pc \in {"verifying", "verified"} \/ VerifyPanicked) =>
       /\ (\E k \in 1 .. Len(proofs) : PartitionOutcome(k) = "false") =>
            /\ ~VerifyPanicked
            /\ pc = "verified" => ~valid
       /\ (pc = "verified" /\ valid) =>
            \A k \in 1 .. Len(proofs) : PartitionOutcome(k) = "ok"

\* C17 (as stated): kdf returns, for every byte string, the digest reduced
\* modulo the group order, and never fails
C17_ReducedModOrder ==
  fn.op = "kdf" =>
    /\ fn.result.ok
    /\ fn.result.value = Blake2s(fn.data) % GroupOrder

\* C17 (amended): kdf returns, for every byte string, the digest with its
\* two most significant bits cleared; that value is below the group order,
\* so the conversion never fails
C17_TopBitsCleared ==
  fn.op = "kdf" =>
    /\ fn.result.ok
    /\ fn.result.value = Blake2s(fn.data) % (DigestSize \div 4)
    /\ fn.result.value < GroupOrder

C17_Witness ==
  /\ fn.op = "kdf"
  /\ Blake2s(fn.data) >= GroupOrder
  /\ fn.result.ok
  /\ fn.result.value # Blake2s(fn.data) % GroupOrder

\* the proofs are the prover's own, for the public inputs the verifier has
HonestProofs == pc \in {"proved", "verifying", "verified"} /\ tamper = "none"

\* C19: for every partition k, the list the verifier derives for the proof
\* at position k is the list derived from (N, replica_id, the seed if one
\* is given and tau.comm_r otherwise, k), and each of its challenges,
\* reduced modulo N, is the node the prover opened in tree_d and in tree_c
C19_ChallengeAgreement ==
  HonestProofs =>
    \A k \in 1 .. Len(proofs) :
      LET verifier == challenges(pub_inputs, pp.layer_challenges, pp.graph.nodes, k - 1)
      IN /\ verifier = derive(pp.layer_challenges, sp.nodes, replica_id,
                              IF pub_inputs.seed.some THEN pub_inputs.seed.value
                              ELSE tau.comm_r, k - 1)
         /\ Len(proofs[k].comm_d_proofs) = Len(verifier)
         /\ \A i \in 1 .. Len(verifier) :
              /\ PathIndex(proofs[k].comm_d_proofs[i].path, 1) = verifier[i] % sp.nodes
              /\ proofs[k].replica_column_proofs[i].c_x.column.index =
                   verifier[i] % sp.nodes

C19_Witness ==
  /\ pc = "verified"
  /\ valid
  /\ tamper = "none"
  /\ Len(proofs) = 2
  /\ pub_inputs.seed.some
  /\ PathIndex(proofs[1].comm_d_proofs[1].path, 1) #
       PathIndex(proofs[2].comm_d_proofs[1].path, 1)
  /\ challenges(pub_inputs, pp.layer_challenges, sp.nodes, 0) #
       challenges([pub_inputs EXCEPT !.seed = NoSeed], pp.layer_challenges, sp.nodes, 0)

\* the labels of buffer buf at the parents of x in the graph of layer 0
LabelsAtParents(x, buf) ==
  LET ps == parents(new_zigzag(sp.nodes, 0, sp.seed), x)
  IN [j \in 1 .. Len(ps) |-> buf[ps[j] + 1]]

\* the layer-1 encoding proof of every challenge x of every partition has
\* the label of x in E_1 as encoded node, the data node of x as decoded
\* node, and the labels of x's parents in buffer P(l) as parents' data
Layer1ProofsFrom(l) ==
  \A k \in 1 .. Len(proofs) :
    LET chs == derive(pp.layer_challenges, sp.nodes, replica_id,
                      IF pub_inputs.seed.some THEN pub_inputs.seed.value
                      ELSE tau.comm_r, k - 1)
    IN /\ Len(proofs[k].encoding_proof_1) = Len(chs)
       /\ \A i \in 1 .. Len(chs) :
            /\ proofs[k].encoding_proof_1[i].encoded_node = E(1)[chs[i] + 1]
            /\ proofs[k].encoding_proof_1[i].decoded_node = data0[chs[i] + 1]
            /\ proofs[k].encoding_proof_1[i].parents = LabelsAtParents(chs[i], E(l))

\* C20 (as stated): encoding_proof_1 holds the label of x at layer 1, the
\* data leaf of x, and the data labels E_0[p] of the parents p of x in
\* graph_0, in parent order
C20_ParentsFromData == HonestProofs => Layer1ProofsFrom(0)

\* C20 (amended): encoding_proof_1 holds the label of x at layer 1, the
\* data leaf of x, and the layer-1 labels E_1[p] of the parents p of x in
\* graph_0, in parent order
C20_ParentsFromLayer1 == HonestProofs => Layer1ProofsFrom(1)

C20_Witness ==
  /\ HonestProofs
  /\ pc = "verified"
  /\ valid
  /\ \E i \in 1 .. Len(proofs[1].encoding_proof_1) :
       LET x == PathIndex(proofs[1].comm_d_proofs[i].path, 1)
       IN /\ proofs[1].encoding_proof_1[i].parents = LabelsAtParents(x, E(1))
          /\ LabelsAtParents(x, E(1)) # LabelsAtParents(x, E(0))

AllAssigned(rows) == \A i \in 1 .. Len(rows) : rows[i].some

RowsBytes(rows) == [i \in 1 .. Len(rows) |-> fr_into_bytes(rows[i].value)]

\* what the claim says of a call: with every row assigned, the constraint
\* system is satisfied and the value allocated is the hash of the rows'
\* bytes outside a circuit; with a row unassigned, AssignmentMissing
AgreesWithNative ==
  IF AllAssigned(fn.rows)
  THEN /\ fn.result.status = "ok"
       /\ fn.result.satisfied
       /\ fn.result.value = Some(vanilla_hash_single_column(RowsBytes(fn.rows)))
  ELSE fn.result.status = "AssignmentMissing"

\* C18 (as stated): in every constraint system, hash_single_column on
\* assigned rows leaves the constraints satisfied and allocates the value
\* of the native hash_single_column of the rows' bytes, and with an
\* unassigned row it returns AssignmentMissing
C18_CircuitAgreesAlways ==
  fn.op = "hash_single_column" => AgreesWithNative

\* C18 (amended): so it is in a constraint system that evaluates the
\* assignments; in one that does not, hash_single_column returns an
\* allocated number without a value, whatever the rows, and no error
C18_CircuitAgrees ==
  fn.op = "hash_single_column" =>
    IF fn.evaluates THEN AgreesWithNative
    ELSE fn.result.status = "ok" /\ fn.result.value = None

C18_Witness ==
  /\ fn.op = "hash_single_column"
  /\ fn.evaluates
  /\ Len(fn.rows) = 2
  /\ AllAssigned(fn.rows)
  /\ fn.rows[1].value >= ByteSize
  /\ fn.result.value.some
  /\ fn.result.value.value >= ByteSize
  /\ ShaState(Concat(RowsBytes(fn.rows))) >= DigestSize \div 4

\* the challenges of partition k (from 1) of the public inputs in use
ChallengesOf(k) ==
  derive(pp.layer_challenges, sp.nodes, replica_id,
         IF pub_inputs.seed.some THEN pub_inputs.seed.value ELSE tau.comm_r, k - 1)

\* C21: the prover's assertion on its encoding proofs never fires; when
\* prove_all_partitions has returned, for every challenge x it has produced
\* layers-2 encoding proofs, one per layer l of 2 .. layers-1, each with the label of l in c_x as encoded node, the
\* label of l-1 in c_inv_x as decoded node and the labels in E_l of the
\* parents of inv_index(x) in graph_1 (l even) or of x in graph_2 (l odd),
\* and each verifies against the replica id
C21_HonestEncodingProofs ==
  /\ ~(pc = "panic" /\ fault = "Invalid encoding proof generated")
  /\ (pc = "proved" /\ tamper = "none") =>
       \A k \in 1 .. Len(proofs) :
         \A i \in 1 .. Len(ChallengesOf(k)) :
           /\ Len(proofs[k].encoding_proofs[i]) = sp.layers - 2
           /\ \A l \in 2 .. (sp.layers - 1) :
                LET ep == proofs[k].encoding_proofs[i][l - 1]
                    rpc == proofs[k].replica_column_proofs[i]
                    x == ChallengesOf(k)[i]
                    g == LayerGraph(pp.graph, IF l % 2 = 0 THEN 1 ELSE 2)
                    pos == IF l % 2 = 0 THEN inv_index(pp.graph, x) ELSE x
                    ps == parents(g, pos)
                IN /\ ep.encoded_node = rpc.c_x.column.rows[l]
                   /\ ep.encoded_node = E(l)[pos + 1]
                   /\ ep.decoded_node = rpc.c_inv_x.column.rows[l - 1]
                   /\ ep.decoded_node = E(l - 1)[pos + 1]
                   /\ ep.parents = [j \in 1 .. Len(ps) |-> E(l)[ps[j] + 1]]
                   /\ EncodingProofVerify(ep, replica_id, ep.encoded_node,
                                          ep.decoded_node)

C21_Witness ==
  /\ pc = "proved"
  /\ tamper = "none"
  /\ sp.layers = 4
  /\ Len(proofs) = 2
  /\ Len(proofs[1].encoding_proofs[1]) = 2
  /\ proofs[1].encoding_proofs[1][1].parents # proofs[1].encoding_proofs[1][2].parents

\* the column proofs of one challenge x, each with the index at which the
\* prover is to open tree_c for it
ExpectedIndices(x) ==
  LET g0 == pp.graph
      g1 == LayerGraph(g0, 1)
      g2 == LayerGraph(g0, 2)
      even == expanded_parents(g1, inv_index(g0, x))
  IN <<x, inv_index(g0, x)>> \o base_parents(g0, x)
       \o [j \in 1 .. Len(even) |-> inv_index(g1, even[j])]
       \o expanded_parents(g2, x)

\* C22: leaf i of tree_c is H2(os[i], es[i]), os[i] the hash of the odd
\* column at i and es[i] the hash of the even column at inv_index(i); and
\* every column proof the prover emits for a challenge (c_x, c_inv_x, the
\* DRG parents, the even and the odd columns of the expansion parents)
\* rebuilds to the leaf of tree_c at the index of its inclusion proof, the
\* index being the column's node, or inv_index of it for an even column
C22_ColumnLeaves ==
  /\ pc = "replicated" =>
       \A i \in 0 .. (sp.nodes - 1) :
         /\ t_aux.tree_c[i + 1] = hash2(t_aux.os[i + 1], t_aux.es[i + 1])
         /\ t_aux.os[i + 1] =
              ColumnHash(get_odd_column(t_aux.encodings, sp.layers, i))
         /\ t_aux.es[i + 1] =
              ColumnHash(get_even_column(t_aux.encodings, sp.layers,
                                         inv_index(pp.graph, i)))
  /\ (pc = "proved" /\ tamper = "none") =>
       \A k \in 1 .. Len(proofs) :
         \A i \in 1 .. Len(ChallengesOf(k)) :
           LET cps == ColumnProofsOf(proofs[k].replica_column_proofs[i])
               idx == ExpectedIndices(ChallengesOf(k)[i])
           IN /\ Len(cps) = Len(idx)
              /\ \A j \in 1 .. Len(cps) :
                   /\ PathIndex(cps[j].inclusion_proof.path, 1) = idx[j]
                   /\ ColumnCommitment(cps[j]) = t_aux.tree_c[idx[j] + 1]
                   /\ cps[j].inclusion_proof.leaf = t_aux.tree_c[idx[j] + 1]
                   /\ cps[j].inclusion_proof.root = p_aux.comm_c

C22_Witness ==
  /\ pc = "proved"
  /\ tamper = "none"
  /\ sp.layers = 4
  /\ sp.nodes = 4
  /\ \E i, j \in 1 .. sp.nodes : t_aux.tree_c[i] # t_aux.tree_c[j]
  /\ LET rcp == proofs[1].replica_column_proofs[1]
     IN /\ rcp.exp_parents_even[1].column.index #
             PathIndex(rcp.exp_parents_even[1].inclusion_proof.path, 1)
        /\ ColumnCommitment(rcp.exp_parents_even[1]) =
             rcp.exp_parents_even[1].inclusion_proof.leaf

\* C23: whatever the order in which the parallel partition items run,
\* prove_all_partitions returns the list whose entry k is the proof of
\* partition k, verify_all_partitions ends the same way with the same
\* boolean (the one of the run that takes the partitions in index order:
\* true when every partition passes, false when one fails), and the
\* temporary aux is the one replicate produced
C23_Independence ==
  /\ (pc = "proved" /\ tamper = "none") =>
       proofs = [k \in 1 .. Len(proofs) |->
                   ProvePartitionOf(pp.graph, pub_inputs, t_aux,
                                    pp.layer_challenges,
                                    pp.layer_challenges.layers, k - 1)]
  /\ pc \in {"proving", "proved", "verifying", "verified"} =>
       t_aux = [encodings |-> encodings, tree_d |-> tree_d,
                tree_r_last |-> build_tree(to_encode),
                tree_c |-> build_tree([i \in 1 .. Len(os) |->
                                         hash2(os[i], es[i])]),
                es |-> es, os |-> os]
  /\ pc = "verified" =>
       valid = (\A k \in 1 .. Len(proofs) : PartitionOutcome(k) = "ok")
  /\ VerifyPanicked =>
       \A k \in 1 .. Len(proofs) : PartitionOutcome(k) # "false"

\* C24: for every partition index k, 256 and above included,
\* PublicInputs::challenges gives the challenges that the derivation gives
\* for partition value k
C24_PartitionValue ==
  fn.op = "challenges" =>
    fn.result = derive(fn.layer_challenges, fn.leaves, fn.pub_inputs.replica_id,
                       IF fn.pub_inputs.seed.some
                       THEN fn.pub_inputs.seed.value
                       ELSE fn.pub_inputs.tau.comm_r,
                       fn.partition_k)

\* C25: for every pub_inputs.k, prove returns the proof of the requested
\* partition (partition 0 when k is None) and does not index outside the
\* list of partition proofs it generated
C25_RequestedPartition ==
  /\ ~(pc = "panic" /\ fault = "prove: index out of bounds")
  /\ pc = "proved one" =>
       proofs = <<ProvePartitionOf(pp.graph, pub_inputs, t_aux,
                                   pp.layer_challenges,
                                   pp.layer_challenges.layers,
                                   IF pub_inputs.k.some
                                   THEN pub_inputs.k.value ELSE 0)>>

\* C26: with_partition(pub_in, k) returns public inputs with k set to the
\* argument and replica_id, tau and seed those of pub_in, so the challenges
\* derived from the result are those derived from pub_in
C26_OnlyPartition ==
  fn.op = "with_partition" =>
    /\ fn.result.k = fn.k
    /\ fn.result.replica_id = fn.pub_in.replica_id
    /\ fn.result.tau = fn.pub_in.tau
    /\ fn.result.seed = fn.pub_in.seed
    /\ \A count \in 1 .. MaxChallenges, leaves \in 3 .. MaxLeaves,
          partition_k \in 0 .. (MaxPartitions - 1) :
         LET layer_challenges == [layers |-> 2, challenges_count |-> count]
         IN challenges(fn.result, layer_challenges, leaves, partition_k)
              = challenges(fn.pub_in, layer_challenges, leaves, partition_k)

====
